---- MODULE Spec2Model ----
(***************************************************************************)
(* The OATH command group of ykman (src/ykman/cli/oath.py): unlocking the  *)
(* credential store, searching it, generating codes and admitting new      *)
(* credentials.  One action per command invocation; the device, the        *)
(* settings file and the interactive prompts are the environment.          *)
(***************************************************************************)
EXTENDS Integers, Sequences, FiniteSets, TLC

VARIABLES
    version,    \* session.version: the firmware version triple
    device_id,  \* session.device_id
    access_key, \* the key protecting the store; NoKey when session.locked is false
    creds,      \* the credentials stored on the device
    keys,       \* settings["keys"] as persisted: device id -> hex of the key
    op,         \* the command of the last invocation
    args,       \* its arguments and the answers the environment gave it
    result,     \* how it ended: "ok" or the error it ended with
    log,        \* the calls it made to the device, the prompts and the settings, in order
    out,        \* what it computed or echoed
    pre         \* the device and the settings as they were when it started

vars == <<version, device_id, access_key, creds, keys, op, args, result, log, out, pre>>

(***************************************************************************)
(* Bounds                                                                  *)
(***************************************************************************)
MaxLen == 3        \* longest credential collection handed to _search
MaxCreds == 2      \* credentials the modelled device has room for
MaxResets == 1     \* resets followed (each gives the device a fresh id)

(***************************************************************************)
(* Strings are sequences of characters.                                    *)
(***************************************************************************)
\* str.lower() on the characters the model uses
LowerChar(ch) ==
    CASE ch = "A" -> "a"
      [] ch = "B" -> "b"
      [] ch = "S" -> "s"
      [] OTHER -> ch

lower(s) == [i \in 1..Len(s) |-> LowerChar(s[i])]

\* Python's `sub in s` on strings
contains(s, sub) ==
    \E i \in 0..(Len(s) - Len(sub)) : SubSeq(s, i + 1, i + Len(sub)) = sub

\* bytes.startswith
startswith(s, prefix) ==
    /\ Len(prefix) <= Len(s)
    /\ SubSeq(s, 1, Len(prefix)) = prefix

\* The characters the model uses, in code point order
CodePoints == <<":", "A", "B", "S", "_", "a", "b", "d", "e", "h", "i", "m", "n", "s", "t", "x">>

Ord(ch) == CHOOSE i \in 1..Len(CodePoints) : CodePoints[i] = ch

\* Python's < on strings
StrLess(a, b) ==
    \E i \in 1..(Len(b)) :
        /\ \A j \in 1..(i - 1) : j <= Len(a) /\ a[j] = b[j]
        /\ (i > Len(a) \/ (i <= Len(a) /\ Ord(a[i]) < Ord(b[i])))

\* Less in every component rather than in the first that differs
TupleLess_componentwise(a, b) ==
    /\ \A i \in 1..3 : a[i] <= b[i]
    /\ \E i \in 1..3 : a[i] < b[i]

\* lexicographic order of Python tuples of integers (the version triples)
TupleLess(a, b) ==
    \E i \in 1..3 :
        /\ \A j \in 1..(i - 1) : a[j] = b[j]
        /\ a[i] < b[i]

(***************************************************************************)
(* Credentials                                                             *)
(***************************************************************************)
NoIssuer == << >>
HiddenIssuer == <<"_", "h", "i", "d", "d", "e", "n">>
SteamIssuer == <<"S", "t", "e", "a", "m">>

is_hidden(c) == c.issuer = HiddenIssuer

is_steam(c) == c.oath_type = "TOTP" /\ c.issuer = SteamIssuer

_string_id(c) == c.id

\* CredentialData.get_id(): the issuer, a colon, the name (default period)
get_id(data) ==
    IF data.issuer = NoIssuer
    THEN data.name
    ELSE data.issuer \o <<":">> \o data.name

\* The credential the device stores for `data`
Credential(data, touch) ==
    [id |-> get_id(data),
     issuer |-> data.issuer,
     name |-> data.name,
     oath_type |-> data.oath_type,
     touch_required |-> touch]

\* Credential.__lt__: by (issuer or name, name), case-insensitively
CredLess(a, b) ==
    LET ka == lower(IF a.issuer # NoIssuer THEN a.issuer ELSE a.name)
        kb == lower(IF b.issuer # NoIssuer THEN b.issuer ELSE b.name)
    IN  \/ StrLess(ka, kb)
        \/ ka = kb /\ StrLess(lower(a.name), lower(b.name))

sorted(cs) == SortSeq(cs, CredLess)

(***************************************************************************)
(* _search: the credentials a query selects                                *)
(***************************************************************************)
RECURSIVE SearchLoop(_, _, _, _, _)
SearchLoop(cs, query, show_hidden, i, hits) ==
    IF i > Len(cs)
    THEN hits
    ELSE LET c == cs[i]
             cred_id == _string_id(c)
         IN  IF ~show_hidden /\ is_hidden(c)
             THEN SearchLoop(cs, query, show_hidden, i + 1, hits)
             ELSE IF cred_id = query
             THEN <<c>>
             ELSE IF contains(lower(cred_id), lower(query))
             THEN SearchLoop(cs, query, show_hidden, i + 1, Append(hits, c))
             ELSE SearchLoop(cs, query, show_hidden, i + 1, hits)

\* Without the return on an exact match
_search_no_exact(cs, query, show_hidden) ==
    SelectSeq(cs, LAMBDA c : /\ show_hidden \/ ~is_hidden(c)
                             /\ contains(lower(_string_id(c)), lower(query)))

\* With the exact match tested before the hidden credentials are skipped
RECURSIVE SearchLoopExactFirst(_, _, _, _, _)
SearchLoopExactFirst(cs, query, show_hidden, i, hits) ==
    IF i > Len(cs)
    THEN hits
    ELSE LET c == cs[i]
             cred_id == _string_id(c)
         IN  IF cred_id = query
             THEN <<c>>
             ELSE IF ~show_hidden /\ is_hidden(c)
             THEN SearchLoopExactFirst(cs, query, show_hidden, i + 1, hits)
             ELSE IF contains(lower(cred_id), lower(query))
             THEN SearchLoopExactFirst(cs, query, show_hidden, i + 1, Append(hits, c))
             ELSE SearchLoopExactFirst(cs, query, show_hidden, i + 1, hits)

_search_exact_first(cs, query, show_hidden) ==
    SearchLoopExactFirst(cs, query, show_hidden, 1, << >>)

_search(cs, query, show_hidden) == SearchLoop(cs, query, show_hidden, 1, << >>)

(***************************************************************************)
(* Keys, and the hex text the settings file keeps them as                  *)
(***************************************************************************)
NoKey == << >>
NoPassword == ""
NoKeys == [d \in {} |-> << >>]

HexDigits == <<"0", "1", "2", "3", "4", "5", "6", "7",
               "8", "9", "a", "b", "c", "d", "e", "f">>

HexValue(ch) == (CHOOSE i \in 1..16 : HexDigits[i] = ch) - 1

\* bytes.hex()
RECURSIVE hex(_)
hex(bytes) ==
    IF bytes = << >>
    THEN << >>
    ELSE <<HexDigits[(Head(bytes) \div 16) + 1], HexDigits[(Head(bytes) % 16) + 1]>>
         \o hex(Tail(bytes))

\* bytes.fromhex()
RECURSIVE fromhex(_)
fromhex(text) ==
    IF text = << >>
    THEN << >>
    ELSE <<16 * HexValue(text[1]) + HexValue(text[2])>>
         \o fromhex(SubSeq(text, 3, Len(text)))

PasswordByte(password) ==
    CASE password = "pw1" -> 26
      [] password = "pw2" -> 177
      [] OTHER -> 0

\* session.derive_key: a key that depends on the password and the device's salt
derive_key(dev, password) == <<PasswordByte(password), 16 * dev + 1>>

(***************************************************************************)
(* An invocation threads a context through its steps: the outcome so far   *)
(* ("ok" while nothing has failed), the calls made, and the device and     *)
(* settings as the steps leave them.  A step after a failure does nothing. *)
(***************************************************************************)
Ev(call, arg) == [call |-> call, arg |-> arg]

Called(l, call) == \E i \in 1..Len(l) : l[i].call = call

Count(l, call) == Cardinality({i \in 1..Len(l) : l[i].call = call})

Start ==
    [result |-> "ok", log |-> << >>, out |-> << >>,
     keys |-> keys, creds |-> creds,
     access_key |-> access_key, device_id |-> device_id]

Logged(ctx, events) == [ctx EXCEPT !.log = @ \o events]

\* ctx.fail / ctx.exit / an exception that ends the command
Fail(ctx, error) == [ctx EXCEPT !.result = error]

\* click.echo: a line on stdout or stderr; `name` is the credential it is about
Line(stream, name, text) == [stream |-> stream, name |-> name, text |-> text]

Echo(ctx, line) == [ctx EXCEPT !.out = Append(@, line)]

\* dict assignment and deletion on settings["keys"]
SetEntry(ks, dev, text) == [d \in DOMAIN ks \cup {dev} |-> IF d = dev THEN text ELSE ks[d]]

DelEntry(ks, dev) == [d \in DOMAIN ks \ {dev} |-> ks[d]]

(***************************************************************************)
(* _validate and _init_session: unlocking the store                        *)
(***************************************************************************)
\* session.validate(key) on the device: the key must be the store's, and the
\* exchange must go through (env.io)
DeviceValidates(ctx, key, env) == env.io /\ ctx.access_key # NoKey /\ key = ctx.access_key

\* Remembers the key whether or not remember is set
_validate_always_remembers(ctx, key, remember, env) ==
    IF ctx.result # "ok" THEN ctx
    ELSE LET tried == Logged(ctx, <<Ev("validate", key)>>)
         IN  IF ~DeviceValidates(ctx, key, env)
             THEN Fail(tried, "AuthenticationFailed")
             ELSE LET written == Logged(tried, <<Ev("settings.write", << >>)>>)
                  IN  IF ~env.wr
                      THEN Fail(written, "AuthenticationFailed")
                      ELSE Echo([written EXCEPT
                                    !.keys = SetEntry(@, ctx.device_id, hex(key))],
                                Line("out", << >>, "Password remembered."))

\* Remembers the key before the device has validated it
_validate_remembers_first(ctx, key, remember, env) ==
    IF ctx.result # "ok" THEN ctx
    ELSE LET saved == IF remember /\ env.wr
                      THEN [ctx EXCEPT !.keys = SetEntry(@, ctx.device_id, hex(key))]
                      ELSE ctx
             tried == Logged(saved, <<Ev("validate", key)>>)
         IN  IF ~DeviceValidates(ctx, key, env)
             THEN Fail(tried, "AuthenticationFailed")
             ELSE IF ~remember
             THEN tried
             ELSE LET written == Logged(tried, <<Ev("settings.write", << >>)>>)
                  IN  IF ~env.wr
                      THEN Fail(written, "AuthenticationFailed")
                      ELSE Echo(written, Line("out", << >>, "Password remembered."))

\* Goes on when the device rejects the key
_validate_ignores_rejection(ctx, key, remember, env) ==
    IF ctx.result # "ok" THEN ctx
    ELSE LET tried == Logged(ctx, <<Ev("validate", key)>>)
         IN  IF ~DeviceValidates(ctx, key, env) \/ ~remember
             THEN tried
             ELSE LET written == Logged(tried, <<Ev("settings.write", << >>)>>)
                  IN  IF ~env.wr
                      THEN Fail(written, "AuthenticationFailed")
                      ELSE Echo([written EXCEPT
                                    !.keys = SetEntry(@, ctx.device_id, hex(key))],
                                Line("out", << >>, "Password remembered."))

_validate(ctx, key, remember, env) ==
    IF ctx.result # "ok" THEN ctx
    ELSE LET tried == Logged(ctx, <<Ev("validate", key)>>)
         IN  IF ~DeviceValidates(ctx, key, env)
             THEN Fail(tried, "AuthenticationFailed")
             ELSE IF ~remember
             THEN tried
             ELSE LET written == Logged(tried, <<Ev("settings.write", << >>)>>)
                  IN  IF ~env.wr
                      THEN Fail(written, "AuthenticationFailed")
                      ELSE Echo([written EXCEPT
                                    !.keys = SetEntry(@, ctx.device_id, hex(key))],
                                Line("out", << >>, "Password remembered."))

\* Without the check of a password given for a store that has none
_init_session_accepts_password(ctx, password, remember, env) ==
    IF ctx.result # "ok" THEN ctx
    ELSE IF ctx.access_key # NoKey
    THEN IF password # NoPassword
         THEN _validate(Logged(ctx, <<Ev("derive_key", <<password>>)>>),
                        derive_key(ctx.device_id, password), remember, env)
         ELSE IF ctx.device_id \in DOMAIN ctx.keys
         THEN _validate(ctx, fromhex(ctx.keys[ctx.device_id]), remember, env)
         ELSE _validate(Logged(ctx, <<Ev("click_prompt", << >>),
                                     Ev("derive_key", <<env.typed>>)>>),
                        derive_key(ctx.device_id, env.typed), remember, env)
    ELSE ctx

\* With the remembered key taking precedence over the password given
_init_session_cache_first(ctx, password, remember, env) ==
    IF ctx.result # "ok" THEN ctx
    ELSE IF ctx.access_key # NoKey
    THEN IF ctx.device_id \in DOMAIN ctx.keys
         THEN _validate(ctx, fromhex(ctx.keys[ctx.device_id]), remember, env)
         ELSE IF password # NoPassword
         THEN _validate(Logged(ctx, <<Ev("derive_key", <<password>>)>>),
                        derive_key(ctx.device_id, password), remember, env)
         ELSE _validate(Logged(ctx, <<Ev("click_prompt", << >>),
                                     Ev("derive_key", <<env.typed>>)>>),
                        derive_key(ctx.device_id, env.typed), remember, env)
    ELSE IF password # NoPassword
    THEN Fail(ctx, "UnexpectedPassword")
    ELSE ctx

\* Falls back to the prompt when the remembered key is rejected
_init_session_prompts_after_cache(ctx, password, remember, env) ==
    IF ctx.result # "ok" THEN ctx
    ELSE IF ctx.access_key # NoKey
    THEN IF password # NoPassword
         THEN _validate(Logged(ctx, <<Ev("derive_key", <<password>>)>>),
                        derive_key(ctx.device_id, password), remember, env)
         ELSE IF ctx.device_id \in DOMAIN ctx.keys
         THEN IF DeviceValidates(ctx, fromhex(ctx.keys[ctx.device_id]), env)
              THEN _validate(ctx, fromhex(ctx.keys[ctx.device_id]), remember, env)
              ELSE _validate(Logged(ctx, <<Ev("validate", fromhex(ctx.keys[ctx.device_id])),
                                          Ev("click_prompt", << >>),
                                          Ev("derive_key", <<env.typed>>)>>),
                             derive_key(ctx.device_id, env.typed), remember, env)
         ELSE _validate(Logged(ctx, <<Ev("click_prompt", << >>),
                                     Ev("derive_key", <<env.typed>>)>>),
                        derive_key(ctx.device_id, env.typed), remember, env)
    ELSE IF password # NoPassword
    THEN Fail(ctx, "UnexpectedPassword")
    ELSE ctx

_init_session(ctx, password, remember, env) ==
    IF ctx.result # "ok" THEN ctx
    ELSE IF ctx.access_key # NoKey
    THEN IF password # NoPassword
         THEN _validate(Logged(ctx, <<Ev("derive_key", <<password>>)>>),
                        derive_key(ctx.device_id, password), remember, env)
         ELSE IF ctx.device_id \in DOMAIN ctx.keys
         THEN _validate(ctx, fromhex(ctx.keys[ctx.device_id]), remember, env)
         ELSE _validate(Logged(ctx, <<Ev("click_prompt", << >>),
                                     Ev("derive_key", <<env.typed>>)>>),
                        derive_key(ctx.device_id, env.typed), remember, env)
    ELSE IF password # NoPassword
    THEN Fail(ctx, "UnexpectedPassword")
    ELSE ctx

(***************************************************************************)
(* _add_cred: admitting a credential                                       *)
(***************************************************************************)
\* ykman.device.is_fips_version
is_fips_version(v) == ~TupleLess(v, <<4, 4, 0>>) /\ TupleLess(v, <<4, 5, 0>>)

\* What put_credential leaves on the device: an entry with the same id is replaced
DevicePut(cs, cred) == {c \in cs : c.id # cred.id} \cup {cred}

HasRoom(cs, cred) == Cardinality(DevicePut(cs, cred)) <= MaxCreds

firmware_overwrite_issue(v) == TupleLess(<<4, 0, 0>>, v) /\ TupleLess(v, <<4, 3, 5>>)

\* The check with the roles of the stored id and the candidate's id exchanged
cred_is_superset(cs, cred_id) ==
    \E cred \in cs : startswith(cred_id, cred.id) /\ cred.id # cred_id

cred_is_subset(cs, cred_id) ==
    \E cred \in cs : startswith(cred.id, cred_id) /\ cred.id # cred_id

\* session.put_credential and the handling of its status word (env.sw)
PutCredential(ctx, data, touch, env) ==
    LET sent == Logged(ctx, <<Ev("put_credential", get_id(data))>>)
    IN  CASE env.sw = "OK" ->
                [sent EXCEPT !.creds = DevicePut(@, Credential(data, touch))]
          [] env.sw = "NO_SPACE" -> Fail(sent, "StorageFull")
          [] env.sw = "COMMAND_ABORTED" -> Fail(sent, "StorageFull")
          [] OTHER -> Fail(sent, "ApduError")

\* Asks also when force is set
overwrite_asks_always(cs, cred_id, force) == \E cred \in cs : cred.id = cred_id

\* Line 491: whether the confirmation to overwrite is requested
overwrite_asks(cs, cred_id, force) == ~force /\ \E cred \in cs : cred.id = cred_id

\* The secret is checked before the name
_add_cred_secret_first(ctx, data, touch, force, env) ==
    IF ctx.result # "ok" THEN ctx
    ELSE IF Len(data.secret) < 2
    THEN Fail(ctx, "SecretTooShort")
    ELSE IF ~(0 < Len(data.name) /\ Len(data.name) <= 64)
    THEN Fail(ctx, "InvalidName")
    ELSE IF touch /\ TupleLess(version, <<4, 2, 6>>)
    THEN Fail(ctx, "UnsupportedTouch")
    ELSE IF data.counter # 0 /\ data.oath_type # "HOTP"
    THEN Fail(ctx, "CounterNotApplicable")
    ELSE IF data.hash_algorithm = "SHA512"
            /\ (TupleLess(version, <<4, 3, 1>>) \/ is_fips_version(version))
    THEN Fail(ctx, "UnsupportedAlgorithm")
    ELSE LET listed == Logged(ctx, <<Ev("list_credentials", << >>)>>)
             cred_id == get_id(data)
             asks == overwrite_asks(ctx.creds, cred_id, force)
             asked == IF asks
                      THEN Logged(listed, <<Ev("click.confirm", cred_id)>>)
                      ELSE listed
         IN  IF asks /\ ~env.confirm
             THEN Fail(asked, "Aborted")
             ELSE IF firmware_overwrite_issue(version) /\ cred_is_subset(ctx.creds, cred_id)
             THEN Fail(asked, "UnsafeOverwriteName")
             ELSE PutCredential(asked, data, touch, env)

_add_cred(ctx, data, touch, force, env) ==
    IF ctx.result # "ok" THEN ctx
    ELSE IF ~(0 < Len(data.name) /\ Len(data.name) <= 64)
    THEN Fail(ctx, "InvalidName")
    ELSE IF Len(data.secret) < 2
    THEN Fail(ctx, "SecretTooShort")
    ELSE IF touch /\ TupleLess(version, <<4, 2, 6>>)
    THEN Fail(ctx, "UnsupportedTouch")
    ELSE IF data.counter # 0 /\ data.oath_type # "HOTP"
    THEN Fail(ctx, "CounterNotApplicable")
    ELSE IF data.hash_algorithm = "SHA512"
            /\ (TupleLess(version, <<4, 3, 1>>) \/ is_fips_version(version))
    THEN Fail(ctx, "UnsupportedAlgorithm")
    ELSE LET listed == Logged(ctx, <<Ev("list_credentials", << >>)>>)
             cred_id == get_id(data)
             asks == overwrite_asks(ctx.creds, cred_id, force)
             asked == IF asks
                      THEN Logged(listed, <<Ev("click.confirm", cred_id)>>)
                      ELSE listed
         IN  IF asks /\ ~env.confirm
             THEN Fail(asked, "Aborted")
             ELSE IF firmware_overwrite_issue(version) /\ cred_is_subset(ctx.creds, cred_id)
             THEN Fail(asked, "UnsafeOverwriteName")
             ELSE PutCredential(asked, data, touch, env)

(***************************************************************************)
(* The environment of one invocation: what the user types and answers,     *)
(* and how the device and the settings file respond.  An answer exists     *)
(* only where the invocation asked.                                        *)
(***************************************************************************)
Quiet ==
    [typed |-> NoPassword,  \* the password typed at the prompt
     typed_new |-> NoPassword, \* the new password typed at change's prompt
     io |-> TRUE,           \* the validate exchange goes through
     wr |-> TRUE,           \* settings.write() succeeds
     confirm |-> FALSE,     \* the answer to click.confirm
     sw |-> "OK",           \* the status of put_credential
     order |-> << >>,       \* the order the device lists the credentials in
     batch |-> {},          \* the ids calculate_all returns a code for
     calc |-> "OK"]         \* the status of calculate_code

EnvAsked(l, env) ==
    /\ Called(l, "click_prompt") <=> env.typed # NoPassword
    /\ Called(l, "click_prompt.new") <=> env.typed_new # NoPassword
    /\ ~Called(l, "validate") => env.io
    /\ ~Called(l, "settings.write") => env.wr
    /\ ~Called(l, "click.confirm") => ~env.confirm
    /\ ~Called(l, "put_credential") => env.sw = "OK"
    /\ ~Called(l, "calculate_code") => env.calc = "OK"
    /\ ~(Called(l, "calculate_all") \/ Called(l, "list_credentials")) => env.order = << >>
    /\ ~Called(l, "calculate_all") => env.batch = {}

\* The orders a device may list the credentials `cs` in
Orders(cs) ==
    {o \in [1..Cardinality(cs) -> cs] : \A i, j \in DOMAIN o : i # j => o[i] # o[j]}

\* The status the device can answer a put with: success needs room
PutStatusPossible(cs, data, touch, env) ==
    \/ env.sw = "OTHER"
    \/ env.sw = "OK" /\ HasRoom(cs, Credential(data, touch))
    \/ env.sw \in {"NO_SPACE", "COMMAND_ABORTED"} /\ ~HasRoom(cs, Credential(data, touch))

Finish(command, arguments, ctx) ==
    /\ op' = command
    /\ args' = arguments
    /\ result' = ctx.result
    /\ log' = ctx.log
    /\ out' = ctx.out
    /\ keys' = ctx.keys
    /\ creds' = ctx.creds
    /\ access_key' = ctx.access_key
    /\ device_id' = ctx.device_id
    /\ pre' = [creds |-> creds, keys |-> keys,
               access_key |-> access_key, device_id |-> device_id]
    /\ UNCHANGED version

\* The process of one invocation ends; the next invocation starts from what it
\* left on the device and in the settings file
exit ==
    /\ op # "idle"
    /\ op' = "idle"
    /\ args' = << >>
    /\ result' = "ok"
    /\ log' = << >>
    /\ out' = << >>
    /\ pre' = [creds |-> creds, keys |-> keys,
               access_key |-> access_key, device_id |-> device_id]
    /\ UNCHANGED <<version, device_id, access_key, creds, keys>>

(***************************************************************************)
(* The commands                                                            *)
(***************************************************************************)
add(data, touch, force, password, remember, env) ==
    LET ctx == _add_cred(_init_session(Start, password, remember, env),
                         data, touch, force, env)
    IN  /\ EnvAsked(ctx.log, env)
        /\ env.order = << >>
        /\ Called(ctx.log, "put_credential") => PutStatusPossible(creds, data, touch, env)
        /\ Finish("add",
                  [data |-> data, touch |-> touch, force |-> force,
                   password |-> password, remember |-> remember, env |-> env],
                  ctx)

\* uri: the credential data come parsed from an otpauth:// URI
uri(data, touch, force, password, remember, env) ==
    LET ctx == _add_cred(_init_session(Start, password, remember, env),
                         data, touch, force, env)
    IN  /\ EnvAsked(ctx.log, env)
        /\ env.order = << >>
        /\ Called(ctx.log, "put_credential") => PutStatusPossible(creds, data, touch, env)
        /\ Finish("uri",
                  [data |-> data, touch |-> touch, force |-> force,
                   password |-> password, remember |-> remember, env |-> env],
                  ctx)

(***************************************************************************)
(* code: generating codes                                                  *)
(***************************************************************************)
\* A Code carries where its value came from; None is the absent code
Code(source) == [value |-> source]
None == [value |-> "None"]

\* session.calculate_all(): a code or None for each credential; the code of a
\* touch-required credential needs the touch, which calculate_all does not wait for
calculate_all(cs, env) ==
    [c \in cs |-> IF c.id \in env.batch /\ ~c.touch_required
                  THEN Code("calculate_all")
                  ELSE None]

\* Reports the first hit only
_error_first_hit(ctx, hits) ==
    Fail(Echo(Echo(Echo(ctx,
            Line("err", << >>, "Error: Multiple matches, please make the query more specific.")),
            Line("err", << >>, "")),
            Line("err", _string_id(hits[1]), "")), "MultipleMatches")

_error_multiple_hits(ctx, hits) ==
    LET head == Echo(Echo(ctx,
                    Line("err", << >>, "Error: Multiple matches, please make the query more specific.")),
                    Line("err", << >>, ""))
        RECURSIVE EachHit(_, _)
        EachHit(c, i) ==
            IF i > Len(hits) THEN c
            ELSE EachHit(Echo(c, Line("err", _string_id(hits[i]), "")), i + 1)
    IN  Fail(EachHit(head, 1), "MultipleMatches")

\* calculate_steam: a computation on the device of its own
calculate_steam(ctx, cred) == Logged(ctx, <<Ev("calculate", cred.id)>>)

\* With one placeholder for every credential without a value
RenderAll_one_placeholder(ctx, hits, entries) ==
    LET rows == sorted(hits)
        RECURSIVE EachRowSame(_, _)
        EachRowSame(c, i) ==
            IF i > Len(rows) THEN c
            ELSE LET cred == rows[i]
                     code == entries[cred]
                     text == IF code # None THEN code.value ELSE ""
                 IN  IF is_steam(cred)
                     THEN EachRowSame(Echo(calculate_steam(c, cred),
                                           Line("out", _string_id(cred), "steam")), i + 1)
                     ELSE EachRowSame(Echo(c, Line("out", _string_id(cred), text)), i + 1)
    IN  EachRowSame(ctx, 1)

\* The table of lines 607-627: one row per credential, in sorted order
RenderAll(ctx, hits, entries) ==
    LET rows == sorted(hits)
        RECURSIVE EachRow(_, _)
        EachRow(c, i) ==
            IF i > Len(rows) THEN c
            ELSE LET cred == rows[i]
                     code == entries[cred]
                     text == IF code # None THEN code.value
                             ELSE IF cred.touch_required THEN "[Touch Credential]"
                             ELSE IF cred.oath_type = "HOTP" THEN "[HOTP Credential]"
                             ELSE ""
                 IN  IF is_steam(cred)
                     THEN EachRow(Echo(calculate_steam(c, cred),
                                       Line("out", _string_id(cred), "steam")), i + 1)
                     ELSE EachRow(Echo(c, Line("out", _string_id(cred), text)), i + 1)
    IN  EachRow(ctx, 1)

\* Lines 601-605: with --single, only the code
RenderSingle(ctx, cred, code) ==
    IF is_steam(cred)
    THEN Echo(calculate_steam(ctx, cred), Line("out", << >>, "steam"))
    ELSE IF code = None
    THEN Fail(ctx, "AttributeError")
    ELSE Echo(ctx, Line("out", << >>, code.value))

\* With the computation ahead of the touch prompt
code_body_computes_first(ctx, show_hidden, query, single, env) ==
    IF ctx.result # "ok" THEN ctx
    ELSE LET all == Logged(ctx, <<Ev("calculate_all", << >>)>>)
             entries == calculate_all(ctx.creds, env)
             hits == _search(env.order, query, show_hidden)
         IN  IF Len(hits) = 1
             THEN LET cred == hits[1]
                      batch_code == entries[cred]
                      computes == cred.oath_type = "HOTP" \/ batch_code = None
                      touched == IF computes
                                 THEN Logged(all, <<Ev("calculate_code", cred.id)>>)
                                 ELSE all
                      computed == IF cred.touch_required
                                  THEN Logged(touched, <<Ev("prompt_for_touch", cred.id)>>)
                                  ELSE touched
                      code == IF computes /\ env.calc = "OK"
                              THEN Code("calculate_code")
                              ELSE batch_code
                      resolved == [entries EXCEPT ![cred] = code]
                  IN  IF computes /\ env.calc = "SECURITY_CONDITION_NOT_SATISFIED"
                      THEN Fail(computed, "TouchTimeout")
                      ELSE IF single
                      THEN RenderSingle(computed, cred, code)
                      ELSE RenderAll(computed, hits, resolved)
             ELSE IF single /\ Len(hits) > 1
             THEN _error_multiple_hits(all, hits)
             ELSE IF single /\ Len(hits) = 0
             THEN Fail(all, "NoMatch")
             ELSE RenderAll(all, hits, entries)

code_body(ctx, show_hidden, query, single, env) ==
    IF ctx.result # "ok" THEN ctx
    ELSE LET all == Logged(ctx, <<Ev("calculate_all", << >>)>>)
             entries == calculate_all(ctx.creds, env)
             hits == _search(env.order, query, show_hidden)
         IN  IF Len(hits) = 1
             THEN LET cred == hits[1]
                      batch_code == entries[cred]
                      touched == IF cred.touch_required
                                 THEN Logged(all, <<Ev("prompt_for_touch", cred.id)>>)
                                 ELSE all
                      computes == cred.oath_type = "HOTP" \/ batch_code = None
                      computed == IF computes
                                  THEN Logged(touched, <<Ev("calculate_code", cred.id)>>)
                                  ELSE touched
                      code == IF computes /\ env.calc = "OK"
                              THEN Code("calculate_code")
                              ELSE batch_code
                      resolved == [entries EXCEPT ![cred] = code]
                  IN  IF computes /\ env.calc = "SECURITY_CONDITION_NOT_SATISFIED"
                      THEN Fail(computed, "TouchTimeout")
                      ELSE IF single
                      THEN RenderSingle(computed, cred, code)
                      ELSE RenderAll(computed, hits, resolved)
             ELSE IF single /\ Len(hits) > 1
             THEN _error_multiple_hits(all, hits)
             ELSE IF single /\ Len(hits) = 0
             THEN Fail(all, "NoMatch")
             ELSE RenderAll(all, hits, entries)

code(show_hidden, query, single, password, remember, env) ==
    LET ctx == code_body(_init_session(Start, password, remember, env),
                         show_hidden, query, single, env)
    IN  /\ EnvAsked(ctx.log, env)
        /\ Called(ctx.log, "calculate_all") =>
                /\ env.order \in Orders(creds)
                /\ env.batch \subseteq {c.id : c \in {d \in creds : ~d.touch_required}}
        /\ env.calc \in {"OK", "SECURITY_CONDITION_NOT_SATISFIED", "OTHER"}
        /\ Finish("code",
                  [show_hidden |-> show_hidden, query |-> query, single |-> single,
                   password |-> password, remember |-> remember, env |-> env],
                  ctx)

(***************************************************************************)
(* delete                                                                  *)
(***************************************************************************)
\* Deletes whatever the answer to the confirmation
delete_body_whatever_answer(ctx, query, force, env) ==
    IF ctx.result # "ok" THEN ctx
    ELSE LET listed == Logged(ctx, <<Ev("list_credentials", << >>)>>)
             hits == _search(env.order, query, TRUE)
         IN  IF Len(hits) = 0
             THEN Echo(listed, Line("out", << >>, "No matches, nothing to be done."))
             ELSE IF Len(hits) = 1
             THEN LET cred == hits[1]
                      asked == IF force THEN listed
                               ELSE Logged(listed, <<Ev("click.confirm", cred.id)>>)
                  IN  IF TRUE
                      THEN Echo([Logged(asked, <<Ev("delete_credential", cred.id)>>)
                                    EXCEPT !.creds = {c \in @ : c.id # cred.id}],
                                Line("out", _string_id(cred), "Deleted."))
                      ELSE Echo(asked, Line("out", << >>, "Deletion aborted by user."))
             ELSE _error_multiple_hits(listed, hits)

delete_body(ctx, query, force, env) ==
    IF ctx.result # "ok" THEN ctx
    ELSE LET listed == Logged(ctx, <<Ev("list_credentials", << >>)>>)
             hits == _search(env.order, query, TRUE)
         IN  IF Len(hits) = 0
             THEN Echo(listed, Line("out", << >>, "No matches, nothing to be done."))
             ELSE IF Len(hits) = 1
             THEN LET cred == hits[1]
                      asked == IF force THEN listed
                               ELSE Logged(listed, <<Ev("click.confirm", cred.id)>>)
                  IN  IF force \/ env.confirm
                      THEN Echo([Logged(asked, <<Ev("delete_credential", cred.id)>>)
                                    EXCEPT !.creds = {c \in @ : c.id # cred.id}],
                                Line("out", _string_id(cred), "Deleted."))
                      ELSE Echo(asked, Line("out", << >>, "Deletion aborted by user."))
             ELSE _error_multiple_hits(listed, hits)

delete(query, force, password, remember, env) ==
    LET ctx == delete_body(_init_session(Start, password, remember, env), query, force, env)
    IN  /\ EnvAsked(ctx.log, env)
        /\ Called(ctx.log, "list_credentials") => env.order \in Orders(creds)
        /\ Finish("delete",
                  [query |-> query, force |-> force,
                   password |-> password, remember |-> remember, env |-> env],
                  ctx)

(***************************************************************************)
(* list                                                                    *)
(***************************************************************************)
list_body(ctx, show_hidden, env) ==
    IF ctx.result # "ok" THEN ctx
    ELSE LET listed == Logged(ctx, <<Ev("list_credentials", << >>)>>)
             shown == sorted(SelectSeq(env.order, LAMBDA c : show_hidden \/ ~is_hidden(c)))
         IN  [listed EXCEPT !.out = @ \o [i \in 1..Len(shown) |->
                                            Line("out", _string_id(shown[i]), "")]]

list(show_hidden, password, remember, env) ==
    LET ctx == list_body(_init_session(Start, password, remember, env), show_hidden, env)
    IN  /\ EnvAsked(ctx.log, env)
        /\ Called(ctx.log, "list_credentials") => env.order \in Orders(creds)
        /\ Finish("list",
                  [show_hidden |-> show_hidden,
                   password |-> password, remember |-> remember, env |-> env],
                  ctx)

(***************************************************************************)
(* access change, remember, forget; reset                                  *)
(***************************************************************************)
\* settings.write() outside _validate: a failure is an exception nothing catches
Write(ctx, ks, env) ==
    LET written == Logged(ctx, <<Ev("settings.write", << >>)>>)
    IN  IF env.wr THEN [written EXCEPT !.keys = ks] ELSE Fail(written, "WriteError")

change_body(ctx, clear, new_password, env) ==
    IF ctx.result # "ok" THEN ctx
    ELSE IF clear
    THEN LET unset == [Logged(ctx, <<Ev("unset_key", << >>)>>) EXCEPT !.access_key = NoKey]
             forgot == IF ctx.device_id \in DOMAIN ctx.keys
                       THEN Write(unset, DelEntry(ctx.keys, ctx.device_id), env)
                       ELSE unset
         IN  IF forgot.result # "ok" THEN forgot
             ELSE Echo(forgot, Line("out", << >>, "Password cleared from YubiKey."))
    ELSE LET asked == IF new_password # NoPassword THEN ctx
                      ELSE Logged(ctx, <<Ev("click_prompt.new", << >>)>>)
             chosen == IF new_password # NoPassword THEN new_password ELSE env.typed_new
             key == derive_key(ctx.device_id, chosen)
             set == Echo([Logged(asked, <<Ev("derive_key", <<chosen>>), Ev("set_key", key)>>)
                             EXCEPT !.access_key = key],
                         Line("out", << >>, "Password updated."))
         IN  IF ctx.device_id \in DOMAIN ctx.keys
             THEN LET saved == Write(set, SetEntry(ctx.keys, ctx.device_id, hex(key)), env)
                  IN  IF saved.result # "ok" THEN saved
                      ELSE Echo(saved, Line("out", << >>, "Password remembered."))
             ELSE set

change(password, clear, new_password, env) ==
    LET ctx == IF clear /\ new_password # NoPassword
               THEN Fail(Start, "UsageError")
               ELSE change_body(_init_session(Start, password, FALSE, env),
                                clear, new_password, env)
    IN  /\ EnvAsked(ctx.log, env)
        /\ Finish("change",
                  [password |-> password, clear |-> clear,
                   new_password |-> new_password, env |-> env],
                  ctx)

remember(password, env) ==
    LET ctx == IF access_key = NoKey
               THEN LET forgot == IF device_id \in DOMAIN keys
                                  THEN Write(Start, DelEntry(keys, device_id), env)
                                  ELSE Start
                    IN  IF forgot.result # "ok" THEN forgot
                        ELSE Echo(forgot, Line("out", << >>,
                                               "This YubiKey is not password protected."))
               ELSE IF password # NoPassword
               THEN _validate(Logged(Start, <<Ev("derive_key", <<password>>)>>),
                              derive_key(device_id, password), TRUE, env)
               ELSE _validate(Logged(Start, <<Ev("click_prompt", << >>),
                                              Ev("derive_key", <<env.typed>>)>>),
                              derive_key(device_id, env.typed), TRUE, env)
    IN  /\ EnvAsked(ctx.log, env)
        /\ Finish("remember", [password |-> password, env |-> env], ctx)

forget(env) ==
    LET ctx == IF device_id \in DOMAIN keys
               THEN LET forgot == Write(Start, DelEntry(keys, device_id), env)
                    IN  IF forgot.result # "ok" THEN forgot
                        ELSE Echo(forgot, Line("out", << >>, "Password forgotten."))
               ELSE Echo(Start, Line("out", << >>, "No password stored for this YubiKey."))
    IN  /\ EnvAsked(ctx.log, env)
        /\ Finish("forget", [env |-> env], ctx)

\* forget --all
_clear_all_passwords(env) ==
    LET ctx == LET forgot == IF DOMAIN keys # {}
                             THEN Write(Start, NoKeys, env)
                             ELSE Start
               IN  IF forgot.result # "ok" THEN forgot
                   ELSE Echo(forgot, Line("out", << >>, "All passwords have been forgotten."))
    IN  /\ EnvAsked(ctx.log, env)
        /\ Finish("forget --all", [env |-> env], ctx)

reset(env) ==
    LET wiped == [Logged(Start, <<Ev("reset", << >>)>>) EXCEPT
                      !.creds = {}, !.access_key = NoKey, !.device_id = @ + 1]
        ctx == IF device_id \in DOMAIN keys
               THEN Write(wiped, DelEntry(keys, device_id), env)
               ELSE wiped
    IN  /\ device_id <= MaxResets
        /\ EnvAsked(ctx.log, env)
        /\ Finish("reset", [env |-> env],
                  IF ctx.result # "ok" THEN ctx
                  ELSE Echo(ctx, Line("out", << >>,
                       "Success! All OATH credentials have been cleared from the YubiKey.")))

(***************************************************************************)
(* _search applied to a collection, as a step of its own                   *)
(***************************************************************************)
search(cs, query, show_hidden) ==
    /\ op' = "_search"
    /\ args' = [creds |-> cs, query |-> query, show_hidden |-> show_hidden]
    /\ out' = _search(cs, query, show_hidden)
    /\ result' = "ok"
    /\ log' = << >>
    /\ pre' = pre
    /\ UNCHANGED <<version, device_id, access_key, creds, keys>>

(***************************************************************************)
(* Inputs                                                                  *)
(***************************************************************************)
Passwords == {"pw1", "pw2"}

Long(n) == [i \in 1..n |-> "x"]

\* A character outside ASCII: one element of a str, two bytes once encoded
EAcute == "U+00E9"

Data(name, issuer, oath_type, hash_algorithm, secret, counter) ==
    [name |-> name, issuer |-> issuer, oath_type |-> oath_type,
     hash_algorithm |-> hash_algorithm, secret |-> secret, counter |-> counter]

\* Firmware versions around every threshold the code compares with
Versions ==
    {<<3, 5, 0>>, <<4, 0, 0>>, <<4, 1, 0>>, <<4, 2, 5>>, <<4, 2, 6>>, <<4, 3, 0>>,
     <<4, 3, 1>>, <<4, 3, 5>>, <<4, 4, 2>>, <<5, 0, 0>>}

AdmitData ==
    {Data(name, NoIssuer, oath_type, hash_algorithm, secret, counter) :
        name \in {<< >>, <<"a">>, <<"a", "b">>, Long(63) \o <<EAcute>>, Long(65)},
        oath_type \in {"TOTP", "HOTP"},
        hash_algorithm \in {"SHA1", "SHA512"},
        secret \in {<<7>>, <<7, 7>>},
        counter \in {0, 1}}

\* Credentials _search is tried on: names that contain one another and differ
\* in case, hidden and not
SearchPool ==
    {Credential(Data(name, issuer, "TOTP", "SHA1", <<7, 7>>, 0), FALSE) :
        name \in {<<"a">>, <<"A">>, <<"a", "b">>, <<"b">>},
        issuer \in {NoIssuer, HiddenIssuer}}
    \cup {Credential(Data(HiddenIssuer \o <<":", "a">>, <<"x">>, "TOTP", "SHA1", <<7, 7>>, 0),
                     FALSE)}

Queries ==
    {<< >>, <<"a">>, <<"A">>, <<"a", "b">>, <<"B">>, <<"d">>,
     HiddenIssuer \o <<":", "a">>}

Collections(pool, n) ==
    UNION {{cs \in [1..k -> pool] : \A i, j \in 1..k : i # j => cs[i].id # cs[j].id} :
           k \in 0..n}

(***************************************************************************)
(* Specifications                                                          *)
(***************************************************************************)
Fresh(v, cs, key) ==
    /\ version = v
    /\ device_id = 1
    /\ access_key = key
    /\ creds = cs
    /\ keys = NoKeys
    /\ op = "idle"
    /\ args = << >>
    /\ result = "ok"
    /\ log = << >>
    /\ out = << >>
    /\ pre = [creds |-> cs, keys |-> NoKeys, access_key |-> key, device_id |-> 1]

\* _search on every small collection
InitSearch == Fresh(<<5, 2, 4>>, {}, NoKey)

NextSearch ==
    \/ exit
    \/ op = "idle" /\ \E cs \in Collections(SearchPool, MaxLen), query \in Queries, show_hidden \in BOOLEAN :
        search(cs, query, show_hidden)

SpecSearch == InitSearch /\ [][NextSearch]_vars

\* Admission on an unprotected device, for every firmware version
InitAdmit == \E v \in Versions : Fresh(v, {}, NoKey)

NextAdmit ==
    \/ exit
    \/ op = "idle" /\ \E data \in AdmitData, touch \in BOOLEAN, force \in BOOLEAN,
          confirm \in BOOLEAN, sw \in {"OK", "NO_SPACE", "COMMAND_ABORTED", "OTHER"} :
           add(data, touch, force, NoPassword, FALSE,
               [Quiet EXCEPT !.confirm = confirm, !.sw = sw])

SpecAdmit == InitAdmit /\ [][NextAdmit]_vars

\* Code generation on an unprotected device holding any few of these credentials
CodePool ==
    {Credential(Data(name, NoIssuer, oath_type, "SHA1", <<7, 7>>, 0), touch) :
        name \in {<<"a">>, <<"a", "b">>}, oath_type \in {"TOTP", "HOTP"}, touch \in BOOLEAN}
    \cup {Credential(Data(<<"a">>, issuer, "TOTP", "SHA1", <<7, 7>>, 0), FALSE) :
            issuer \in {SteamIssuer, HiddenIssuer}}
    \cup {Credential(Data(<<"a">>, SteamIssuer, "TOTP", "SHA1", <<7, 7>>, 0), TRUE)}

Stores(pool) ==
    {cs \in SUBSET pool :
        /\ Cardinality(cs) <= MaxCreds
        /\ \A c, d \in cs : c.id = d.id => c = d}

InitCode == \E cs \in Stores(CodePool) : Fresh(<<5, 2, 4>>, cs, NoKey)

NextCode ==
    \/ exit
    \/ op = "idle" /\
         \E query \in {<< >>, <<"a">>, <<"a", "b">>, <<"b">>},
            show_hidden \in BOOLEAN, single \in BOOLEAN,
            order \in Orders(creds), batch \in SUBSET {c.id : c \in creds},
            calc \in {"OK", "SECURITY_CONDITION_NOT_SATISFIED", "OTHER"} :
             code(show_hidden, query, single, NoPassword, FALSE,
                  [Quiet EXCEPT !.order = order, !.batch = batch, !.calc = calc])

SpecCode == InitCode /\ [][NextCode]_vars

\* Deletion on an unprotected device holding any few of these credentials,
\* hidden ones among them
DeletePool ==
    {Credential(Data(name, issuer, "TOTP", "SHA1", <<7, 7>>, 0), FALSE) :
        name \in {<<"a">>, <<"a", "b">>}, issuer \in {NoIssuer, HiddenIssuer}}

InitDelete == \E cs \in Stores(DeletePool) : Fresh(<<5, 2, 4>>, cs, NoKey)

NextDelete ==
    \/ exit
    \/ op = "idle" /\
         \E query \in {<< >>, <<"a">>, <<"A">>, <<"a", "b">>, <<"d">>, <<"x">>},
            force \in BOOLEAN, confirm \in BOOLEAN, order \in Orders(creds) :
             delete(query, force, NoPassword, FALSE,
                    [Quiet EXCEPT !.order = order, !.confirm = confirm])

SpecDelete == InitDelete /\ [][NextDelete]_vars

\* Every command, on a device that starts empty and unprotected
PlainData ==
    {Data(name, NoIssuer, oath_type, "SHA1", <<7, 7>>, 0) :
        name \in {<<"a">>, <<"a", "b">>}, oath_type \in {"TOTP", "HOTP"}}

MaybePassword == Passwords \cup {NoPassword}

\* What the user may type and whether the exchanges go through
Envs ==
    {[Quiet EXCEPT !.typed = typed, !.io = io, !.wr = wr] :
        typed \in MaybePassword, io \in BOOLEAN, wr \in BOOLEAN}

Init == Fresh(<<5, 2, 4>>, {}, NoKey)

Next ==
    \/ exit
    \/ op = "idle" /\
         \E data \in PlainData, force \in BOOLEAN, password \in MaybePassword,
            keep \in BOOLEAN, env \in Envs, confirm \in BOOLEAN :
             add(data, FALSE, force, password, keep, [env EXCEPT !.confirm = confirm])
    \/ op = "idle" /\
         \E data \in PlainData, force \in BOOLEAN, password \in MaybePassword,
            keep \in BOOLEAN, env \in Envs, confirm \in BOOLEAN :
             uri(data, FALSE, force, password, keep, [env EXCEPT !.confirm = confirm])
    \/ op = "idle" /\
         \E show_hidden \in BOOLEAN, password \in MaybePassword,
            keep \in BOOLEAN, env \in Envs, order \in Orders(creds) \cup {<< >>} :
             list(show_hidden, password, keep, [env EXCEPT !.order = order])
    \/ op = "idle" /\
         \E query \in {<< >>, <<"a">>}, single \in BOOLEAN, password \in MaybePassword,
            keep \in BOOLEAN, env \in Envs, order \in Orders(creds) \cup {<< >>},
            batch \in {{}, {c.id : c \in creds}},
            calc \in {"OK", "SECURITY_CONDITION_NOT_SATISFIED", "OTHER"} :
             code(FALSE, query, single, password, keep,
                  [env EXCEPT !.order = order, !.batch = batch, !.calc = calc])
    \/ op = "idle" /\
         \E query \in {<<"a">>, <<"A">>}, force \in BOOLEAN, password \in MaybePassword,
            keep \in BOOLEAN, env \in Envs, order \in Orders(creds) \cup {<< >>},
            confirm \in BOOLEAN :
             delete(query, force, password, keep,
                    [env EXCEPT !.order = order, !.confirm = confirm])
    \/ op = "idle" /\
         \E password \in MaybePassword, clear \in BOOLEAN, new_password \in MaybePassword,
            env \in Envs, typed_new \in MaybePassword :
             change(password, clear, new_password, [env EXCEPT !.typed_new = typed_new])
    \/ op = "idle" /\ \E password \in MaybePassword, env \in Envs : remember(password, env)
    \/ op = "idle" /\ \E env \in Envs : forget(env)
    \/ op = "idle" /\ \E env \in Envs : _clear_all_passwords(env)
    \/ op = "idle" /\ \E env \in Envs : reset(env)

Spec == Init /\ [][Next]_vars

(***************************************************************************)
(* Properties                                                              *)
(***************************************************************************)
\* The id of the candidate of an add
CandidateId == get_id(args.data)

\* Checks 1-5 of admission hold for the candidate of an add
StaticChecksPass ==
    /\ Len(args.data.name) \in 1..64
    /\ Len(args.data.secret) >= 2
    /\ ~(args.touch /\ TupleLess(version, <<4, 2, 6>>))
    /\ ~(args.data.counter # 0 /\ args.data.oath_type # "HOTP")
    /\ ~(args.data.hash_algorithm = "SHA512"
          /\ (TupleLess(version, <<4, 3, 1>>) \/ is_fips_version(version)))

InDefectWindow == TupleLess(<<4, 0, 0>>, version) /\ TupleLess(version, <<4, 3, 5>>)

\* Some other stored credential's id is a strict prefix of the candidate's
StoredIsPrefixOfCandidate ==
    \E c \in pre.creds : c.id # CandidateId /\ startswith(CandidateId, c.id)

\* The candidate's id is a strict prefix of some other stored credential's
CandidateIsPrefixOfStored ==
    \E c \in pre.creds : c.id # CandidateId /\ startswith(c.id, CandidateId)

OverwriteDeclined == result = "Aborted"

\* C1 as stated: inside the defect window, a stored id that is a strict prefix of
\* the candidate's id (stored "a", candidate "ab") makes admission fail with
\* UnsafeOverwriteName before put_credential.
C1_AsStated ==
    (op = "add" /\ StaticChecksPass /\ ~OverwriteDeclined
        /\ InDefectWindow /\ StoredIsPrefixOfCandidate)
    => (result = "UnsafeOverwriteName" /\ ~Called(log, "put_credential"))

\* C1 amended: inside the defect window admission fails with UnsafeOverwriteName,
\* put_credential never called and the store unchanged, exactly when the
\* candidate's id is a strict prefix of another stored credential's id (stored
\* "ab", candidate "a"); a stored credential with the candidate's own id never
\* trips the guard, and a stored id that is a prefix of the candidate's does not
\* either.
C1_DefectGuard ==
    (op = "add" /\ StaticChecksPass /\ ~OverwriteDeclined)
    => /\ result = "UnsafeOverwriteName" <=> (InDefectWindow /\ CandidateIsPrefixOfStored)
       /\ result = "UnsafeOverwriteName" =>
              (~Called(log, "put_credential") /\ creds = pre.creds)

C1_Witness ==
    /\ op = "add"
    /\ version = <<4, 1, 0>>
    /\ CandidateId = <<"a">>
    /\ \E c \in pre.creds : c.id = <<"a", "b">>
    /\ result = "UnsafeOverwriteName"

\* The ids the last invocation reported on stderr
ReportedIds == {out[i].name : i \in {j \in 1..Len(out) : out[j].stream = "err"}} \ {<< >>}

\* The ids of the stored credentials the query of the last invocation matches
MatchedIds ==
    {c.id : c \in {d \in pre.creds :
        /\ contains(lower(d.id), lower(args.query))
        /\ (op = "code" /\ ~args.show_hidden) => ~is_hidden(d)}}

\* A delete, or a code --single, that ended on more than one match
AbortedOnMultipleHits ==
    /\ op \in {"delete", "code"}
    /\ op = "code" => args.single
    /\ result = "MultipleMatches"

DeviceUntouched ==
    /\ creds = pre.creds
    /\ access_key = pre.access_key
    /\ device_id = pre.device_id
    /\ ~Called(log, "calculate_code")
    /\ ~Called(log, "calculate")
    /\ ~Called(log, "delete_credential")
    /\ ~Called(log, "put_credential")

\* C2 as stated: an operation needing one match that finds several reports all of
\* them and the invocation has changed nothing, the KeyCache included, whatever
\* password and remember are.
C2_AsStated ==
    AbortedOnMultipleHits
    => (ReportedIds = MatchedIds /\ DeviceUntouched /\ keys = pre.keys)

\* C2 amended: an operation needing one match that finds several reports all of
\* them and leaves the credentials and the device untouched (no calculate_code,
\* no deletion); the KeyCache is as before the invocation except for what the
\* unlock that came first wrote: with remember on a locked store, the device's
\* entry is the validated key.
C2_MultipleHitsFrame ==
    AbortedOnMultipleHits
    => /\ ReportedIds = MatchedIds
       /\ Cardinality(MatchedIds) > 1
       /\ DeviceUntouched
       /\ keys = IF args.remember /\ pre.access_key # NoKey
                 THEN SetEntry(pre.keys, pre.device_id, hex(pre.access_key))
                 ELSE pre.keys

C2_Witness ==
    /\ AbortedOnMultipleHits
    /\ op = "delete"
    /\ args.remember
    /\ pre.access_key # NoKey
    /\ keys # pre.keys

\* The credentials the query of the last code invocation selected
CodeHits == _search(args.env.order, args.query, args.show_hidden)

\* What the last code invocation echoed as the code of credential c
Rendered(c) ==
    {out[i].text : i \in {j \in 1..Len(out) :
        /\ out[j].stream = "out"
        /\ ~args.single => out[j].name = c.id}}

\* C3 as stated: for a single matched credential, an HOTP code always comes from
\* a fresh calculate_code and never from calculate_all's batch, even when the
\* batch holds a value for it; a TOTP credential with a batch value is served
\* that value with no calculate_code.
C3_AsStated ==
    (op = "code" /\ Called(log, "calculate_all") /\ Len(CodeHits) = 1)
    => LET c == CodeHits[1]
       IN  /\ c.oath_type = "HOTP" =>
                  (Called(log, "calculate_code") /\ "calculate_all" \notin Rendered(c))
           /\ (c.oath_type = "TOTP" /\ c.id \in args.env.batch) =>
                  /\ ~Called(log, "calculate_code")
                  /\ ~is_steam(c) => Rendered(c) = {"calculate_all"}

\* The commands that start with _init_session(ctx, password, remember)
UnlockOps == {"add", "uri", "list", "code", "delete"}

\* The key the last invocation handed to session.validate
ValidatedKey == log[CHOOSE i \in 1..Len(log) : log[i].call = "validate"].arg

\* The device accepted that key
ValidationSucceeded == args.env.io /\ ValidatedKey = pre.access_key

\* The unlock of the last invocation went through on a locked store
UnlockedLocked ==
    /\ op \in UnlockOps
    /\ pre.access_key # NoKey
    /\ Called(log, "validate")
    /\ result # "AuthenticationFailed"

\* C4: after a successful unlock of a locked store with remember, the KeyCache
\* entry of the device is the validated key, whichever source the key came from,
\* and the other entries are as before; without remember the KeyCache is unchanged.
C4_RememberWritesValidatedKey ==
    UnlockedLocked
    => IF args.remember
       THEN /\ pre.device_id \in DOMAIN keys
            /\ fromhex(keys[pre.device_id]) = ValidatedKey
            /\ ValidatedKey = pre.access_key
            /\ DOMAIN keys = DOMAIN pre.keys \cup {pre.device_id}
            /\ \A d \in DOMAIN pre.keys \ {pre.device_id} : keys[d] = pre.keys[d]
       ELSE keys = pre.keys

C4_Witness ==
    /\ UnlockedLocked
    /\ args.remember
    /\ args.password = NoPassword
    /\ Called(log, "click_prompt")
    /\ pre.device_id \notin DOMAIN pre.keys
    /\ keys[pre.device_id] = hex(derive_key(pre.device_id, args.env.typed))

\* C5: when the device rejects the key or the exchange fails, unlock ends in
\* AuthenticationFailed whatever the source of the key, nothing follows the
\* validate call, and the KeyCache is as it was, also with remember.
C5_FailedValidationLeavesCache ==
    (op \in UnlockOps \cup {"change", "remember"} /\ Called(log, "validate")
        /\ ~ValidationSucceeded)
    => /\ result = "AuthenticationFailed"
       /\ keys = pre.keys
       /\ log[Len(log)].call = "validate"
       /\ creds = pre.creds /\ access_key = pre.access_key

C5_Witness ==
    /\ op \in UnlockOps
    /\ args.remember
    /\ args.password = NoPassword
    /\ pre.device_id \in DOMAIN pre.keys
    /\ fromhex(pre.keys[pre.device_id]) # pre.access_key
    /\ Called(log, "validate")
    /\ ValidatedKey = fromhex(pre.keys[pre.device_id])
    /\ result = "AuthenticationFailed"

\* C10: on a store that is not locked, unlock fails with UnexpectedPassword when
\* a password was given and succeeds otherwise; either way it derives no key,
\* validates nothing, prompts for nothing and leaves the KeyCache alone, whatever
\* remember is and whether or not the KeyCache has an entry for the device.
C10_UnlockedStore ==
    /\ (op = "change" /\ pre.access_key = NoKey /\ result # "UsageError"
            /\ args.password # NoPassword)
       => (result = "UnexpectedPassword" /\ log = << >> /\ keys = pre.keys
           /\ access_key = pre.access_key)
    /\ (op \in UnlockOps /\ pre.access_key = NoKey)
       => /\ args.password # NoPassword =>
                 (result = "UnexpectedPassword" /\ log = << >> /\ out = << >>
                  /\ creds = pre.creds)
          /\ args.password = NoPassword =>
                 result \notin {"UnexpectedPassword", "AuthenticationFailed"}
          /\ ~Called(log, "derive_key")
          /\ ~Called(log, "validate")
          /\ ~Called(log, "click_prompt")
          /\ ~Called(log, "settings.write")
          /\ keys = pre.keys

C10_Witness ==
    /\ op \in UnlockOps
    /\ pre.access_key = NoKey
    /\ args.password # NoPassword
    /\ args.remember
    /\ pre.device_id \in DOMAIN pre.keys
    /\ result = "UnexpectedPassword"

\* What _search is to return on collection cs for query q when nothing is hidden
\* from it: the credential whose id is q if there is one, else those whose id
\* contains q whatever the case, in the order of cs
Selected(cs, q) ==
    IF \E i \in 1..Len(cs) : cs[i].id = q
    THEN <<cs[CHOOSE i \in 1..Len(cs) : cs[i].id = q]>>
    ELSE SelectSeq(cs, LAMBDA c : contains(lower(c.id), lower(q)))

\* C6: with show_hidden, _search returns the one credential whose id is the
\* query, wherever it stands and whatever else contains the query; without such
\* a credential, exactly the case-insensitive substring matches, in order.
C6_SearchExactElseSubstring ==
    (op = "_search" /\ args.show_hidden) => out = Selected(args.creds, args.query)

C6_Witness ==
    /\ op = "_search"
    /\ args.show_hidden
    /\ Len(args.creds) = 3
    /\ args.creds[3].id = args.query
    /\ contains(lower(args.creds[1].id), lower(args.query))
    /\ contains(lower(args.creds[2].id), lower(args.query))
    /\ out = <<args.creds[3]>>

\* C7: without show_hidden, _search returns no hidden credential, and a hidden
\* credential whose id is the query neither is returned nor stops the visible
\* matches from being collected: the result is that of the visible credentials.
C7_SearchSkipsHidden ==
    (op = "_search" /\ ~args.show_hidden)
    => /\ \A i \in 1..Len(out) : ~is_hidden(out[i])
       /\ out = Selected(SelectSeq(args.creds, LAMBDA c : ~is_hidden(c)), args.query)

C7_Witness ==
    /\ op = "_search"
    /\ ~args.show_hidden
    /\ Len(args.creds) >= 2
    /\ is_hidden(args.creds[1])
    /\ args.creds[1].id = args.query
    /\ out = <<args.creds[2]>>

\* The checks of admission in the order of the specification, each with whether
\* the last add violates it
Violated ==
    <<~(Len(args.data.name) \in 1..64),
      Len(args.data.secret) < 2,
      args.touch /\ TupleLess(version, <<4, 2, 6>>),
      args.data.counter # 0 /\ args.data.oath_type # "HOTP",
      args.data.hash_algorithm = "SHA512"
          /\ (TupleLess(version, <<4, 3, 1>>) \/ is_fips_version(version)),
      ~args.force /\ (\E c \in pre.creds : c.id = CandidateId) /\ ~args.env.confirm,
      InDefectWindow /\ CandidateIsPrefixOfStored,
      args.env.sw # "OK">>

CheckError ==
    <<"InvalidName", "SecretTooShort", "UnsupportedTouch", "CounterNotApplicable",
      "UnsupportedAlgorithm", "Aborted", "UnsafeOverwriteName",
      IF args.env.sw = "OTHER" THEN "ApduError" ELSE "StorageFull">>

FirstViolated == CHOOSE i \in 1..8 : Violated[i] /\ \A j \in 1..(i - 1) : ~Violated[j]

\* C8: admission reports the error of the earliest violated check in the order
\* name, secret, touch, counter, SHA512, overwrite confirmation, defect guard,
\* submission; when a check fails put_credential is not called, and whenever
\* admission fails the stored credentials are unchanged.
C8_FirstFailureWins ==
    op = "add"
    => IF \E i \in 1..8 : Violated[i]
       THEN /\ result = CheckError[FirstViolated]
            /\ FirstViolated < 8 => ~Called(log, "put_credential")
            /\ creds = pre.creds
       ELSE /\ result = "ok"
            /\ Called(log, "put_credential")

C8_Witness ==
    /\ op = "add"
    /\ Violated[1] /\ Violated[2] /\ Violated[3] /\ Violated[4] /\ Violated[5]
    /\ pre.creds # {}
    /\ result = "InvalidName"

SameIdStored == \E c \in pre.creds : c.id = CandidateId

\* C9: a confirmation is requested exactly when a stored credential has the
\* candidate's id and force is not set (and the earlier checks passed); declined,
\* the add ends Aborted with put_credential not called and the store unchanged;
\* with force, or confirmed, admission goes on to the defect guard and the store.
C9_OverwriteConfirmation ==
    op = "add"
    => /\ Called(log, "click.confirm") <=> (StaticChecksPass /\ SameIdStored /\ ~args.force)
       /\ Count(log, "click.confirm") <= 1
       /\ (Called(log, "click.confirm") /\ ~args.env.confirm) =>
              (result = "Aborted" /\ ~Called(log, "put_credential") /\ creds = pre.creds)
       /\ (StaticChecksPass /\ SameIdStored /\ (args.force \/ args.env.confirm)) =>
              /\ result # "Aborted"
              /\ result # "UnsafeOverwriteName" => Called(log, "put_credential")
       /\ result = "Aborted" => (Called(log, "click.confirm") /\ ~args.env.confirm)

C9_Witness ==
    /\ op = "add"
    /\ SameIdStored
    /\ ~args.force
    /\ Called(log, "click.confirm")
    /\ ~args.env.confirm
    /\ result = "Aborted"

\* The last invocation was a code whose calculate_code ran into the touch timeout
TouchTimedOut ==
    /\ op = "code"
    /\ Called(log, "calculate_code")
    /\ args.env.calc = "SECURITY_CONDITION_NOT_SATISFIED"

\* The last code invocation echoed a row of the table for the credential `id`
HasRow(id) == \E i \in 1..Len(out) : out[i].stream = "out" /\ out[i].name = id

\* C11 as stated: a touch timeout while code computes a credential's code is an
\* error of that credential only: it is reported for it, the operation is not
\* aborted, and the rows of the other matched credentials are rendered.
C11_AsStated ==
    TouchTimedOut
    => LET timed == log[CHOOSE i \in 1..Len(log) : log[i].call = "calculate_code"].arg
       IN  /\ result = "ok"
           /\ \E i \in 1..Len(out) : out[i].stream = "err" /\ out[i].name = timed
           /\ \A i \in 1..Len(CodeHits) :
                  (~args.single /\ CodeHits[i].id # timed) => HasRow(CodeHits[i].id)

\* The calculate_code of the last code invocation failed, with whatever status
CalculateCodeFailed ==
    /\ op = "code"
    /\ Called(log, "calculate_code")
    /\ args.env.calc # "OK"

\* C12 as stated: every failure of calculate_code for the matched credential,
\* whatever its status, ends the code operation in an error; nothing is rendered
\* for the credential after the failed computation.
C12_AsStated ==
    CalculateCodeFailed
    => /\ result # "ok"
       /\ \A i \in 1..Len(out) : out[i].stream # "out"

\* The last invocation was a code whose query matched no credential or several
NotSingleMatch ==
    /\ op = "code"
    /\ Called(log, "calculate_all")
    /\ Len(CodeHits) # 1

\* The device computed for credential `id` with calculate_steam's command
Recomputed(id) == \E i \in 1..Len(log) : log[i] = Ev("calculate", id)

\* The placeholder for a credential that has no value
Placeholder(c) ==
    IF c.touch_required THEN "[Touch Credential]"
    ELSE IF c.oath_type = "HOTP" THEN "[HOTP Credential]"
    ELSE ""

RECURSIVE ByteLen(_)
ByteLen(name) ==
    IF name = << >> THEN 0
    ELSE (IF Head(name) = EAcute THEN 2 ELSE 1) + ByteLen(Tail(name))

\* C14 as stated: admission ends in InvalidName exactly for the names that are 0
\* bytes or more than 64 bytes long once encoded, multi-byte characters included.
C14_AsStated ==
    op = "add" => (result = "InvalidName" <=> ~(ByteLen(args.data.name) \in 1..64))

\* The firmware version is lower than 4.2.6 as versions are ordered
BelowTouchVersion ==
    \/ version[1] < 4
    \/ version[1] = 4 /\ version[2] < 2
    \/ version[1] = 4 /\ version[2] = 2 /\ version[3] < 6

\* C15: an admission whose name and secret pass ends in UnsupportedTouch exactly
\* when touch is requested and the firmware version is lower than (4,2,6) in
\* the order of versions; without touch the version never gives UnsupportedTouch.
C15_TouchVersion ==
    (op = "add" /\ Len(args.data.name) \in 1..64 /\ Len(args.data.secret) >= 2)
    => /\ result = "UnsupportedTouch" <=> (args.touch /\ BelowTouchVersion)
       /\ result = "UnsupportedTouch" => (~Called(log, "put_credential") /\ creds = pre.creds)

C15_Witness ==
    /\ op = "add"
    /\ args.touch
    /\ version = <<4, 2, 5>>
    /\ Len(args.data.secret) >= 2
    /\ args.data.name = <<"a">>
    /\ result = "UnsupportedTouch"

\* The operations of the credential store a command issues once the store is open
StoreCalls ==
    {"list_credentials", "put_credential", "delete_credential", "calculate_all",
     "calculate_code", "calculate", "set_key", "unset_key"}

\* The last invocation asked for the key to be remembered
Remembers == op \in UnlockOps /\ args.remember

\* C16: in add, uri, list, code, delete and change every operation of the
\* credential store comes after an unlock that completed: on a locked store
\* after a validate of the store's key that went through (and, with remember,
\* after the key was saved), on an unlocked store only when no password was
\* given; an invocation that ended in AuthenticationFailed or UnexpectedPassword
\* issued none.
C16_UnlockFirst ==
    (op \in UnlockOps \cup {"change"})
    => /\ \A i \in 1..Len(log) :
              log[i].call \in StoreCalls
              => /\ pre.access_key = NoKey => args.password = NoPassword
                 /\ pre.access_key # NoKey =>
                        /\ \E j \in 1..(i - 1) :
                               /\ log[j] = Ev("validate", pre.access_key)
                               /\ args.env.io
                        /\ Count(log, "validate") = 1
                        /\ Remembers =>
                               \E j \in 1..(i - 1) :
                                   log[j].call = "settings.write" /\ args.env.wr
       /\ result \in {"AuthenticationFailed", "UnexpectedPassword"}
              => \A i \in 1..Len(log) : log[i].call \notin StoreCalls

C16_Witness ==
    /\ op = "uri"
    /\ pre.access_key # NoKey
    /\ args.password = NoPassword
    /\ pre.device_id \in DOMAIN pre.keys
    /\ Called(log, "validate")
    /\ Called(log, "put_credential")
    /\ result = "ok"

\* The KeyCache agrees with the device: an entry for the device means the store
\* is locked and the entry is the store's key
KeyCacheAgrees ==
    device_id \in DOMAIN keys
    => (access_key # NoKey /\ fromhex(keys[device_id]) = access_key)

\* C17 as stated: from an empty KeyCache, after any sequence of operations on the
\* device, an entry of the KeyCache for the device means the store is locked and
\* the entry is the store's current key.
C17_AsStated == KeyCacheAgrees

\* The saving of the KeyCache failed in the invocation that ends in the next state
FailedWrite == op' # "idle" /\ Called(log', "settings.write") /\ ~args'.env.wr

\* Every invocation in which no saving of the KeyCache fails keeps the KeyCache
\* in agreement with the device
KeyCacheKept == [][(KeyCacheAgrees /\ ~FailedWrite) => KeyCacheAgrees']_vars

\* The calls of the last invocation up to and including its first validate
UpToValidate ==
    SubSeq(log, 1, CHOOSE i \in 1..Len(log) :
                       log[i].call = "validate"
                       /\ \A j \in 1..(i - 1) : log[j].call # "validate")

\* C18: on a locked store the unlock of add, uri, list, code, delete and change
\* takes the key from the password given, derived, even when the KeyCache has an
\* entry for the device; else from the entry of the KeyCache, with no derivation
\* and no prompt; else from the password typed at one prompt, derived; and
\* validate is called with exactly that key.
C18_KeyPrecedence ==
    (op \in UnlockOps \cup {"change"} /\ pre.access_key # NoKey /\ result # "UsageError")
    => /\ Called(log, "validate")
       /\ UpToValidate =
              IF args.password # NoPassword
              THEN <<Ev("derive_key", <<args.password>>),
                     Ev("validate", derive_key(pre.device_id, args.password))>>
              ELSE IF pre.device_id \in DOMAIN pre.keys
              THEN <<Ev("validate", fromhex(pre.keys[pre.device_id]))>>
              ELSE <<Ev("click_prompt", << >>),
                     Ev("derive_key", <<args.env.typed>>),
                     Ev("validate", derive_key(pre.device_id, args.env.typed))>>

C18_Witness ==
    /\ op \in UnlockOps
    /\ pre.access_key # NoKey
    /\ args.password # NoPassword
    /\ pre.device_id \in DOMAIN pre.keys
    /\ fromhex(pre.keys[pre.device_id]) # derive_key(pre.device_id, args.password)
    /\ UpToValidate[2] = Ev("validate", derive_key(pre.device_id, args.password))
    /\ result = "ok"

DeleteHits == Selected(args.env.order, args.query)

\* C20: one delete calls delete_credential at most once, and exactly when the
\* search over all the credentials, hidden ones included, returned one
\* credential and force is set or the confirmation was given; it is called with
\* that credential's id and removes that credential only.  With no hit, with
\* several, or with the confirmation declined, the credentials are unchanged.
C20_DeleteOnce ==
    (op = "delete" /\ Called(log, "list_credentials"))
    => /\ Count(log, "delete_credential") <= 1
       /\ Called(log, "delete_credential")
              <=> (Len(DeleteHits) = 1 /\ (args.force \/ args.env.confirm))
       /\ Called(log, "click.confirm") <=> (Len(DeleteHits) = 1 /\ ~args.force)
       /\ IF Called(log, "delete_credential")
          THEN /\ \E i \in 1..Len(log) : log[i] = Ev("delete_credential", DeleteHits[1].id)
               /\ creds = pre.creds \ {DeleteHits[1]}
          ELSE creds = pre.creds

C20_Witness ==
    /\ op = "delete"
    /\ Cardinality(pre.creds) = 2
    /\ Len(DeleteHits) = 1
    /\ is_hidden(DeleteHits[1])
    /\ ~args.force
    /\ args.env.confirm
    /\ Called(log, "delete_credential")
    /\ Cardinality(creds) = 1

\* The last invocation took the key from the KeyCache and the device did not
\* accept it
CachedKeyFailed ==
    /\ pre.access_key # NoKey
    /\ args.password = NoPassword
    /\ pre.device_id \in DOMAIN pre.keys
    /\ ~(args.env.io /\ fromhex(pre.keys[pre.device_id]) = pre.access_key)

\* C21: the unlock of one invocation prompts for the password at most once and
\* calls validate at most once, and it ends either unlocked or in
\* AuthenticationFailed or UnexpectedPassword with nothing after the failure;
\* a key from the KeyCache that fails validation is followed by no prompt and
\* no second validate.
C21_NoRetry ==
    (op \in UnlockOps \cup {"change", "remember"} /\ result # "UsageError")
    => /\ Count(log, "click_prompt") <= 1
       /\ Count(log, "validate") <= 1
       /\ (Called(log, "validate") /\ ~ValidationSucceeded)
              => (result = "AuthenticationFailed" /\ log[Len(log)].call = "validate")
       /\ (op # "remember" /\ CachedKeyFailed)
              => /\ log = <<Ev("validate", fromhex(pre.keys[pre.device_id]))>>
                 /\ result = "AuthenticationFailed"

C21_Witness ==
    /\ op = "code"
    /\ ~args.remember
    /\ CachedKeyFailed
    /\ args.env.io
    /\ Count(log, "validate") = 1
    /\ ~Called(log, "click_prompt")
    /\ result = "AuthenticationFailed"

====
